---- MODULE Spec2Model ----
(***************************************************************************)
(* asyncprawcore: the request orchestration of Session (sessions.py) on    *)
(* top of Requestor (requestor.py).                                        *)
(*                                                                         *)
(* Every logical call is a coroutine run by one event loop thread.  An     *)
(* action of the model is the code one coroutine runs between two awaits.  *)
(* The Authorizer (auth.py), the RateLimiter (rate_limit.py) and util.py   *)
(* are collaborators modelled from their contracts in spec.md, sections    *)
(* 4.3, 4.4 and 6: RateLimiter.call awaits its delay, then the header      *)
(* callback, then the Requestor's request.                                 *)
(*                                                                         *)
(* Four specifications share the actions and differ in the run they start: *)
(* Spec (one call, every status and cause), SpecConc (two calls on one     *)
(* loop and one token), SpecWire (one call, every argument, the requests   *)
(* followed to the transport) and SpecLive (one call, fair scheduling).    *)
(***************************************************************************)
EXTENDS Integers, Sequences, FiniteSets, TLC

(* ------------------------------------------------------------------ *)
(* Bounds of the model                                                 *)
(* ------------------------------------------------------------------ *)

\* Largest retry budget handed to _request_with_retries directly.
MaxBudget == 2

\* random.random() is drawn from {0/RandomSteps, ..., (RandomSteps-1)/RandomSteps}.
RandomSteps == 2

\* The logical calls (coroutines) the event loop may hold.
Calls == {1, 2}

(* ------------------------------------------------------------------ *)
(* Program constants                                                   *)
(* ------------------------------------------------------------------ *)

\* retries=3, the default of _request_with_retries, the one request() uses.
DefaultRetries == 3

\* codes["unauthorized"]
UNAUTHORIZED == 401

\* codes["no_content"]
NO_CONTENT == 204

\* codes["found"]
FOUND == 302

\* _retry_sleep sleeps only when retries < 3.
SleepBelow == 3

\* The classes of requests.exceptions that sessions.py imports.
RETRY_EXCEPTIONS == {"ChunkedEncodingError", "ConnectionError", "ReadTimeout"}

\* util.authorization_error_class(response): the AuthError variant.
authorization_error_class == "AuthError"

RETRY_STATUSES == {520, 522, 502, 504, 500, 503}

\* STATUS_EXCEPTIONS with the 451 entry left out.
StatusExceptionsWithout451 ==
    (502 :> "ServerError") @@ (400 :> "BadRequest") @@ (409 :> "Conflict") @@
    (302 :> "Redirect") @@ (403 :> authorization_error_class) @@ (504 :> "ServerError") @@
    (500 :> "ServerError") @@ (415 :> "SpecialError") @@ (404 :> "NotFound") @@
    (413 :> "TooLarge") @@ (503 :> "ServerError") @@
    (401 :> authorization_error_class) @@
    (520 :> "ServerError") @@ (522 :> "ServerError")

STATUS_EXCEPTIONS ==
    (502 :> "ServerError") @@ (400 :> "BadRequest") @@ (409 :> "Conflict") @@
    (302 :> "Redirect") @@ (403 :> authorization_error_class) @@ (504 :> "ServerError") @@
    (500 :> "ServerError") @@ (415 :> "SpecialError") @@ (404 :> "NotFound") @@
    (413 :> "TooLarge") @@ (503 :> "ServerError") @@
    (401 :> authorization_error_class) @@
    (451 :> "UnavailableForLegalReasons") @@ (520 :> "ServerError") @@
    (522 :> "ServerError")

SUCCESS_STATUSES == {201, 200}

(* ------------------------------------------------------------------ *)
(* The environment: what the transport can hand to an attempt          *)
(* ------------------------------------------------------------------ *)

\* Statuses a server can answer with redirects not followed: the ones the
\* Session names, and two it does not (301, 429).
AllStatuses ==
    {200, 201, 204, 301, 302, 400, 401, 403, 404, 409, 413, 415, 429, 451,
     500, 502, 503, 504, 520, 522}

\* What the aiohttp.ClientSession that set_http makes raises when the
\* connection fails and when the ClientTimeout of the request expires:
\* aiohttp.ClientConnectorError and asyncio.TimeoutError, instances of no
\* class of requests.exceptions.
AiohttpFailures == {"ClientConnectorError", "TimeoutError"}

\* Causes Requestor.request wraps into RequestException: those of the
\* default transport, the classes the Session retries (which only a
\* session handed to set_http can raise), and any other exception.
Causes == AiohttpFailures \cup RETRY_EXCEPTIONS \cup {"OtherError"}

\* The outcome of one attempt: a response (its status and its body: "json"
\* decodes, "notjson" does not, "empty" comes with content-length "0") or a
\* RequestException (its cause).
NoResult == [status |-> 0, body |-> "none", cause |-> "none"]

Response(s, b) == [status |-> s, body |-> b, cause |-> "none"]

RequestException(e) == [status |-> 0, body |-> "none", cause |-> e]

\* Every status with a body that decodes; an empty body and a body that
\* does not decode for the statuses whose handling reads them.
Responses(statuses) ==
    {Response(s, "json") : s \in statuses} \cup
    {Response(s, "empty") : s \in statuses \cap (SUCCESS_STATUSES \cup {NO_CONTENT})} \cup
    {Response(s, "notjson") : s \in statuses \cap SUCCESS_STATUSES}

Pending == [kind |-> "pending", carries |-> NoResult]

Last(h) == h[Len(h)]

VARIABLES
    clients,     \* the calls the callers of this run start
    budgets,     \* the budgets they hand to _request_with_retries directly
    server,      \* the responses the server gives in this run
    faults,      \* the causes the transport fails with in this run
    inputs,      \* the arguments the callers pass in this run
    canRefresh,  \* hasattr(self._authorizer, "refresh")
    token,       \* the Authorizer's cached token: "valid" or "none"
    closed,      \* Session.close has been called
    httpOpen,    \* the Requestor's _http session is open
    blocked,     \* the call holding the loop thread in time.sleep, or 0
    pc,          \* where each call's coroutine is suspended
    returned,    \* what awaiting Session.request gave the caller
    budget,      \* retries of the first _request_with_retries of the call
    retries,     \* retries of the current _request_with_retries
    trace,       \* what the call did, in order
    hist,        \* the outcome of each attempt of the call, in order
    slept,       \* the call's latest backoff sleep, if any, in 1/RandomSteps seconds
    outcome,     \* what the call's coroutine returned or raised
    arg,         \* the arguments the caller passed, as they were at the call
    callerData,  \* the caller's data object, as it is now
    desc,        \* the descriptor handed to _request_with_retries
    sent,        \* what the transport was asked to send, request by request
    counters,    \* retries of each _request_with_retries of the call, in order
    sleepsAscend \* no backoff sleep of the call was shorter than the one before it

vars == <<clients, budgets, server, faults, inputs, canRefresh, token, closed, httpOpen,
          blocked, pc, returned, budget, retries, trace, hist, slept, outcome,
          arg, callerData, desc, sent, counters, sleepsAscend>>

config == <<clients, budgets, server, faults, inputs, canRefresh>>

call == <<arg, callerData, desc>>

session == <<closed, httpOpen>>

(* ------------------------------------------------------------------ *)
(* Pure parts of Session                                               *)
(* ------------------------------------------------------------------ *)

\* _retry_sleep sleeping before the last attempt only.
SleepsBeforeLastOnly(r) == r < SleepBelow - 1

\* _retry_sleep: whether it sleeps at all.
Sleeps(r) == r < SleepBelow

\* _retry_sleep with the two bases exchanged.
SleepBaseExchanged(r) == IF r = 2 THEN 2 ELSE 0

\* _retry_sleep: base = 0 if retries == 2 else 2.
SleepBase(r) == IF r = 2 THEN 0 ELSE 2

\* _retry_sleep: base + 2 * random.random(), in 1/RandomSteps seconds, for
\* random.random() = rnd / RandomSteps.
SleepSeconds(r, rnd) == SleepBase(r) * RandomSteps + 2 * rnd

\* _make_request's except clause: the RequestException is raised to the caller.
Reraised(r, e) == r <= 1 \/ e \notin RETRY_EXCEPTIONS

\* _do_retry handing retries on as it got it.
RetriesLeftSame(r) == r

\* _do_retry: retries=retries - 1
RetriesLeft(r) == r - 1

\* do_retry never set.
ForcedRetryNever(res, refreshable) == FALSE

\* do_retry set on a 401 without the hasattr check.
ForcedRetryAnyAuthorizer(res, refreshable) ==
    res.cause = "none" /\ res.status = UNAUTHORIZED

\* do_retry of _request_with_retries: a 401 with a refresh-capable Authorizer.
ForcedRetry(res, refreshable) ==
    res.cause = "none" /\ res.status = UNAUTHORIZED /\ refreshable

\* The retry condition with retries > 0 for retries > 1.
RetryDecisionOffByOne(r, res, refreshable) ==
    r > 0 /\ (\/ res.cause = "none" /\ res.status = UNAUTHORIZED /\ refreshable
              \/ res.cause # "none"
              \/ res.status \in RETRY_STATUSES)

\* The retry condition without do_retry.
RetryDecisionStatusOnly(r, res, refreshable) ==
    r > 1 /\ (res.cause # "none" \/ res.status \in RETRY_STATUSES)

\* The condition of the if that calls _do_retry (res is a response, or the
\* saved exception with response None).
RetryDecision(r, res, refreshable) ==
    r > 1 /\ (\/ ForcedRetry(res, refreshable)
              \/ res.cause # "none"
              \/ res.status \in RETRY_STATUSES)

\* The terminal branches without the content-length check.
ResolveWithoutLengthCheck(res) ==
    IF res.status \in DOMAIN STATUS_EXCEPTIONS
    THEN [kind |-> STATUS_EXCEPTIONS[res.status], carries |-> res]
    ELSE IF res.status = NO_CONTENT
    THEN [kind |-> "NoContent", carries |-> NoResult]
    ELSE IF res.status \notin SUCCESS_STATUSES
    THEN [kind |-> "AssertionError", carries |-> NoResult]
    ELSE [kind |-> "decoding", carries |-> res]

\* The terminal branches of _request_with_retries up to the await of
\* response.json(): what the coroutine raises or returns, "decoding" when
\* it goes on to decode the body.
Resolve(res) ==
    IF res.status \in DOMAIN STATUS_EXCEPTIONS
    THEN [kind |-> STATUS_EXCEPTIONS[res.status], carries |-> res]
    ELSE IF res.status = NO_CONTENT
    THEN [kind |-> "NoContent", carries |-> NoResult]
    ELSE IF res.status \notin SUCCESS_STATUSES
    THEN [kind |-> "AssertionError", carries |-> NoResult]
    ELSE IF res.body = "empty"
    THEN [kind |-> "Empty", carries |-> NoResult]
    ELSE [kind |-> "decoding", carries |-> res]

\* return await response.json() / except ValueError: raise BadJSON(response)
Decoded(res) ==
    IF res.body = "json" THEN [kind |-> "Value", carries |-> NoResult]
    ELSE [kind |-> "BadJSON", carries |-> res]

(* ------------------------------------------------------------------ *)
(* Authorizer, from its contract                                       *)
(* ------------------------------------------------------------------ *)

\* is_valid()
IsValid(t) == t = "valid"

\* _clear_access_token()
ClearedToken == "none"

\* refresh() installs a token
RefreshedToken == "valid"

\* The header callback building the header from the token as it finds it.
NeedsRefreshNever(t, refreshable) == FALSE

\* _set_header_callback: not is_valid() and hasattr(authorizer, "refresh")
NeedsRefresh(t, refreshable) == ~IsValid(t) /\ refreshable

\* "bearer {}".format(access_token): which token the header is built from
Header(t) == IF t = "none" THEN "send:None" ELSE "send"

(* ------------------------------------------------------------------ *)
(* The arguments of a call and the request descriptor                  *)
(* ------------------------------------------------------------------ *)

\* The keys of the mappings callers pass, in the order Python's < puts
\* these strings.
KeyOrder == <<"a", "api_type", "z">>

Keys == {KeyOrder[i] : i \in 1 .. Len(KeyOrder)}

Values == {"json", "v"}

\* The dicts over these keys and values.
Mappings == UNION {[ks -> Values] : ks \in SUBSET Keys}

EmptyMapping == [k \in {} |-> "v"]

\* data=None, data=<a dict>, data=<a list of pairs>, data=<bytes>
NoData == [type |-> "none", map |-> EmptyMapping, seq |-> <<>>]

DictData(m) == [type |-> "dict", map |-> m, seq |-> <<>>]

ListData(pairs) == [type |-> "list", map |-> EmptyMapping, seq |-> pairs]

BytesData == [type |-> "bytes", map |-> EmptyMapping, seq |-> <<>>]

\* A path relative to the base URL, and a path that is a URL of its own.
RelativePath == [host |-> "", path |-> "/api/v1/me"]

AbsolutePath == [host |-> "elsewhere", path |-> "/api/v1/me"]

\* self._requestor.oauth_url
oauth_url == "oauth"

\* The arguments of Session.request.
Args(method, path, data, files, json, params) ==
    [method |-> method, path |-> path, data |-> data, files |-> files,
     json |-> json, params |-> params]

\* d[k] = v on a dict
SetItem(d, k, v) == [x \in DOMAIN d \cup {k} |-> IF x = k THEN v ELSE d[x]]

\* d.items()
Items(d) == {<<k, d[k]>> : k \in DOMAIN d}

\* The place of a key in Python's order of the strings.
Rank(k) == CHOOSE i \in 1 .. Len(KeyOrder) : KeyOrder[i] = k

\* The pairs in descending order of their keys.
RECURSIVE sortedDescending(_)
sortedDescending(items) ==
    IF items = {} THEN <<>>
    ELSE LET first == CHOOSE p \in items :
                          \A q \in items : Rank(p[1]) >= Rank(q[1])
         IN  <<first>> \o sortedDescending(items \ {first})

\* sorted(data.items()): the keys of a dict differ, so the order of the
\* pairs is the order of their keys.
RECURSIVE sorted(_)
sorted(items) ==
    IF items = {} THEN <<>>
    ELSE LET first == CHOOSE p \in items :
                          \A q \in items : Rank(p[1]) <= Rank(q[1])
         IN  <<first>> \o sorted(items \ {first})

\* What request() leaves in the caller's data object: data = deepcopy(data)
\* rebinds the name, and the two statements after it act on the copy.
CallerDataAfter(d) == d

\* if isinstance(data, dict): deepcopy, data["api_type"] = "json",
\* sorted(data.items())
CanonicalData(d) ==
    IF d.type = "dict"
    THEN ListData(sorted(Items(SetItem(d.map, "api_type", "json"))))
    ELSE d

\* params = deepcopy(params) or {}; params["raw_json"] = 1
CanonicalParams(p) == SetItem(p, "raw_json", "1")

\* urljoin(base, path)
urljoin(base, path) ==
    IF path.host = "" THEN [host |-> base, path |-> path.path] ELSE path

\* The keyword arguments request() hands to _request_with_retries.
Descriptor(a) ==
    [data |-> CanonicalData(a.data), files |-> a.files, json |-> a.json,
     method |-> a.method, params |-> CanonicalParams(a.params),
     url |-> urljoin(oauth_url, a.path)]

\* What a call holds before it is made.
NoArgs == Args("none", RelativePath, NoData, "none", "none", EmptyMapping)

NoDescriptor == Descriptor(NoArgs)

\* session.request("get", "/api/v1/me")
PlainGet == Args("get", RelativePath, NoData, "none", "none", EmptyMapping)

\* Where a 302 sends the client.
Location == [host |-> "redirected", path |-> "/"]

\* allow_redirects=True.
FollowRedirects == TRUE

\* allow_redirects=False, the keyword _make_request passes.
allow_redirects == FALSE

\* What _make_request hands to the Requestor's request through the
\* RateLimiter: method, url, allow_redirects, data, json and params; files
\* is not among them.
Dispatched(d) ==
    [method |-> d.method, url |-> d.url, allow_redirects |-> allow_redirects,
     data |-> d.data, json |-> d.json, params |-> d.params, files |-> "none"]

(* ------------------------------------------------------------------ *)
(* Initial states                                                      *)
(* ------------------------------------------------------------------ *)

InitWith(cs, bs, rs, es, as) ==
    /\ clients = cs
    /\ budgets = bs
    /\ server = rs
    /\ faults = es
    /\ inputs = as
    /\ canRefresh \in BOOLEAN
    /\ token \in {"valid", "none"}
    /\ closed = FALSE
    /\ httpOpen = TRUE
    /\ blocked = 0
    /\ pc = [c \in Calls |-> "idle"]
    /\ returned = [c \in Calls |-> "nothing"]
    /\ budget = [c \in Calls |-> 0]
    /\ retries = [c \in Calls |-> 0]
    /\ trace = [c \in Calls |-> <<>>]
    /\ hist = [c \in Calls |-> <<>>]
    /\ slept = [c \in Calls |-> <<>>]
    /\ outcome = [c \in Calls |-> Pending]
    /\ arg = [c \in Calls |-> NoArgs]
    /\ callerData = [c \in Calls |-> NoData]
    /\ desc = [c \in Calls |-> NoDescriptor]
    /\ sent = [c \in Calls |-> <<>>]
    /\ counters = [c \in Calls |-> <<>>]
    /\ sleepsAscend = [c \in Calls |-> TRUE]

\* One logical call, through request() with the default budget or straight
\* into _request_with_retries with a smaller one; any response, any failure.
Init == InitWith({1}, 1 .. MaxBudget, Responses(AllStatuses), Causes, {PlainGet})

\* Two logical calls on one event loop, against a server that answers 200
\* or 401 over a transport that loses connections.
InitConc ==
    InitWith(Calls, {2}, {Response(200, "json"), Response(UNAUTHORIZED, "json")},
             {"ConnectionError"}, {PlainGet})

\* The arguments of the calls whose requests are followed onto the wire:
\* every dict as the body of a post, and a get with and without a body of
\* bytes, attached files, a JSON object and query parameters, to a path
\* under the base URL or to a URL of its own.
WireInputs ==
    {Args("post", RelativePath, DictData(m), "none", "none", EmptyMapping) :
        m \in Mappings} \cup
    {Args("get", p, d, f, "none", q) :
        p \in {RelativePath, AbsolutePath}, d \in {NoData, BytesData},
        f \in {"none", "attached"},
        q \in {EmptyMapping, "raw_json" :> "0", "q" :> "v"}} \cup
    {Args("post", RelativePath, NoData, "none", "object", EmptyMapping)}

\* One logical call with any of these arguments, against a server that
\* answers 200, 302 or 503 over a transport that loses connections.
InitWire ==
    InitWith({1}, {2},
             {Response(200, "json"), Response(FOUND, "json"), Response(503, "json")},
             {"ConnectionError"}, WireInputs)

(* ------------------------------------------------------------------ *)
(* Actions                                                             *)
(* ------------------------------------------------------------------ *)

\* _request_with_retries(retries=r) from its first line to its first
\* await: _retry_sleep (time.sleep holds the loop thread), then
\* _make_request up to the RateLimiter's await.
EnterAttempt(c, r, rnd) ==
    /\ retries' = [retries EXCEPT ![c] = r]
    /\ counters' = [counters EXCEPT ![c] = Append(@, r)]
    /\ IF Sleeps(r)
       THEN /\ pc' = [pc EXCEPT ![c] = "sleep"]
            /\ blocked' = c
            /\ slept' = [slept EXCEPT ![c] = <<SleepSeconds(r, rnd)>>]
            /\ sleepsAscend' = [sleepsAscend EXCEPT ![c] =
                    @ /\ (slept[c] = <<>> \/ slept[c][1] <= SleepSeconds(r, rnd))]
       ELSE /\ pc' = [pc EXCEPT ![c] = "limiter"]
            /\ UNCHANGED <<blocked, slept, sleepsAscend>>

\* await session.request(...): canonicalises and returns the coroutine of
\* _request_with_retries without awaiting it.
Request(c, a) ==
    /\ blocked = 0
    /\ c \in clients
    /\ pc[c] = "idle"
    /\ arg' = [arg EXCEPT ![c] = a]
    /\ callerData' = [callerData EXCEPT ![c] = CallerDataAfter(a.data)]
    /\ desc' = [desc EXCEPT ![c] = Descriptor(a)]
    /\ pc' = [pc EXCEPT ![c] = "created"]
    /\ returned' = [returned EXCEPT ![c] = "coroutine"]
    /\ budget' = [budget EXCEPT ![c] = DefaultRetries]
    /\ UNCHANGED <<config, token, session, blocked, retries, trace, hist,
                   slept, outcome, sent, counters, sleepsAscend>>

\* The caller awaits the coroutine request() returned.
AwaitReturned(c) ==
    /\ blocked = 0
    /\ pc[c] = "created"
    /\ \E rnd \in 0 .. RandomSteps - 1 : EnterAttempt(c, budget[c], rnd)
    /\ UNCHANGED <<config, token, session, returned, budget, trace, hist,
                   outcome, call, sent>>

\* await session._request_with_retries(..., retries=b), with the
\* descriptor request() makes of the arguments a.
Invoke(c, b, a) ==
    /\ blocked = 0
    /\ c \in clients
    /\ pc[c] = "idle"
    /\ arg' = [arg EXCEPT ![c] = a]
    /\ callerData' = [callerData EXCEPT ![c] = a.data]
    /\ desc' = [desc EXCEPT ![c] = Descriptor(a)]
    /\ budget' = [budget EXCEPT ![c] = b]
    /\ \E rnd \in 0 .. RandomSteps - 1 : EnterAttempt(c, b, rnd)
    /\ UNCHANGED <<config, token, session, returned, trace, hist, outcome, sent>>

\* time.sleep returns.
SleepEnd(c) ==
    /\ pc[c] = "sleep"
    /\ blocked = c
    /\ blocked' = 0
    /\ pc' = [pc EXCEPT ![c] = "limiter"]
    /\ trace' = [trace EXCEPT ![c] = Append(@, "sleep")]
    /\ UNCHANGED <<config, token, session, returned, budget, retries, hist,
                   slept, outcome, call, sent, counters, sleepsAscend>>

\* RateLimiter.call after its delay: _set_header_callback, then the
\* Requestor's request is awaited, or the Authorizer's refresh is.
SetHeader(c) ==
    /\ blocked = 0
    /\ pc[c] = "limiter"
    /\ IF NeedsRefresh(token, canRefresh)
       THEN /\ pc' = [pc EXCEPT ![c] = "refresh"]
            /\ trace' = [trace EXCEPT ![c] = Append(@, "refresh")]
            /\ UNCHANGED sent
       ELSE /\ pc' = [pc EXCEPT ![c] = "transport"]
            /\ trace' = [trace EXCEPT ![c] = Append(@, Header(token))]
            /\ sent' = [sent EXCEPT ![c] = Append(@, Dispatched(desc[c]))]
    /\ UNCHANGED <<config, token, session, blocked, returned, budget, retries,
                   hist, slept, outcome, call, counters, sleepsAscend>>

\* refresh() returns; the header is built and the request is awaited.
Refreshed(c) ==
    /\ blocked = 0
    /\ pc[c] = "refresh"
    /\ token' = RefreshedToken
    /\ pc' = [pc EXCEPT ![c] = "transport"]
    /\ trace' = [trace EXCEPT ![c] = Append(@, Header(RefreshedToken))]
    /\ sent' = [sent EXCEPT ![c] = Append(@, Dispatched(desc[c]))]
    /\ UNCHANGED <<config, session, blocked, returned, budget, retries, hist,
                   slept, outcome, call, counters, sleepsAscend>>

\* The rest of _request_with_retries after _make_request returned res.
AfterAttempt(c, res) ==
    /\ hist' = [hist EXCEPT ![c] = Append(@, res)]
    /\ token' = IF res.cause = "none" /\ res.status = UNAUTHORIZED
                THEN ClearedToken ELSE token
    /\ IF RetryDecision(retries[c], res, canRefresh)
       THEN /\ \E rnd \in 0 .. RandomSteps - 1 :
                   EnterAttempt(c, RetriesLeft(retries[c]), rnd)
            /\ UNCHANGED outcome
       ELSE /\ outcome' = [outcome EXCEPT ![c] =
                              IF Resolve(res).kind = "decoding"
                              THEN @ ELSE Resolve(res)]
            /\ pc' = [pc EXCEPT ![c] =
                         IF Resolve(res).kind = "decoding"
                         THEN "decoding" ELSE "done"]
            /\ UNCHANGED <<retries, blocked, slept, counters, sleepsAscend>>

\* The transport answers: Requestor.request returns the response, or, asked
\* to follow redirects and answered 302, sends the request to the Location
\* of the answer.
Respond(c, res) ==
    /\ blocked = 0
    /\ httpOpen
    /\ pc[c] = "transport"
    /\ IF Last(sent[c]).allow_redirects /\ res.status = FOUND
       THEN /\ sent' = [sent EXCEPT ![c] = Append(@, [Last(@) EXCEPT !.url = Location])]
            /\ UNCHANGED <<token, blocked, pc, retries, trace, hist, slept,
                           outcome, counters, sleepsAscend>>
       ELSE /\ trace' = [trace EXCEPT ![c] = Append(@, "response")]
            /\ AfterAttempt(c, res)
            /\ UNCHANGED sent
    /\ UNCHANGED <<config, session, returned, budget, call>>

\* The transport fails: Requestor.request raises RequestException(exc).
Fail(c, e) ==
    /\ blocked = 0
    /\ pc[c] = "transport"
    /\ trace' = [trace EXCEPT ![c] = Append(@, "exception")]
    /\ IF Reraised(retries[c], e)
       THEN /\ hist' = [hist EXCEPT ![c] = Append(@, RequestException(e))]
            /\ outcome' = [outcome EXCEPT ![c] =
                    [kind |-> "TransportError", carries |-> RequestException(e)]]
            /\ pc' = [pc EXCEPT ![c] = "done"]
            /\ UNCHANGED <<token, retries, blocked, slept, counters, sleepsAscend>>
       ELSE AfterAttempt(c, RequestException(e))
    /\ UNCHANGED <<config, session, returned, budget, call, sent>>

\* await response.json() returns or raises ValueError.
Decode(c) ==
    /\ blocked = 0
    /\ pc[c] = "decoding"
    /\ outcome' = [outcome EXCEPT ![c] = Decoded(hist[c][Len(hist[c])])]
    /\ pc' = [pc EXCEPT ![c] = "done"]
    /\ UNCHANGED <<config, token, session, blocked, returned, budget, retries,
                   trace, hist, slept, call, sent, counters, sleepsAscend>>

\* Session.close: self._requestor.close() makes the coroutine of
\* Requestor.close, which nothing awaits; the transport is left as it was.
SessionClose(open) == open

Close ==
    /\ blocked = 0
    /\ closed' = TRUE
    /\ httpOpen' = SessionClose(httpOpen)
    /\ UNCHANGED <<config, token, blocked, pc, returned, budget, retries,
                   trace, hist, slept, outcome, call, sent, counters, sleepsAscend>>

\* with session: ... __enter__ returns self, __exit__ calls self.close().
ExitContext ==
    /\ blocked = 0
    /\ closed' = TRUE
    /\ httpOpen' = SessionClose(httpOpen)
    /\ UNCHANGED <<config, token, blocked, pc, returned, budget, retries,
                   trace, hist, slept, outcome, call, sent, counters, sleepsAscend>>

\* await requestor.close(): the coroutine of Requestor.close runs.
RequestorClose ==
    /\ blocked = 0
    /\ httpOpen
    /\ httpOpen' = FALSE
    /\ UNCHANGED <<config, token, closed, blocked, pc, returned, budget,
                   retries, trace, hist, slept, outcome, call, sent, counters,
                   sleepsAscend>>

Next ==
    \/ \E c \in Calls : \E a \in inputs : Request(c, a)
    \/ \E c \in Calls : AwaitReturned(c)
    \/ \E c \in Calls : \E b \in budgets : \E a \in inputs : Invoke(c, b, a)
    \/ \E c \in Calls : SleepEnd(c)
    \/ \E c \in Calls : SetHeader(c)
    \/ \E c \in Calls : Refreshed(c)
    \/ \E c \in Calls : \E res \in server : Respond(c, res)
    \/ \E c \in Calls : \E e \in faults : Fail(c, e)
    \/ \E c \in Calls : Decode(c)
    \/ Close
    \/ ExitContext
    \/ RequestorClose

Spec == Init /\ [][Next]_vars

SpecConc == InitConc /\ [][Next]_vars

SpecWire == InitWire /\ [][Next]_vars

(* ------------------------------------------------------------------ *)
(* Vocabulary of the properties                                        *)
(* ------------------------------------------------------------------ *)

IsSend(e) == e \in {"send", "send:None"}

IsNotSleep(e) == e # "sleep"

\* The attempts the call has dispatched to the transport.
Attempts(c) == Len(SelectSeq(trace[c], IsSend))

\* The refreshes the call has awaited.
IsRefresh(e) == e = "refresh"

Refreshes(c) == Len(SelectSeq(trace[c], IsRefresh))

StatusSeq(h) == [i \in 1 .. Len(h) |-> h[i].status]

AllResponses(h) == \A i \in 1 .. Len(h) : h[i].cause = "none"

\* The call's coroutine has returned or raised.
Finished(c) == pc[c] = "done"

\* The call is between two attempts or in one.
Retrying(c) == pc[c] \in {"sleep", "limiter", "refresh", "transport"}

SuccessKinds == {"Value", "Empty"}

\* The retryable statuses of spec.md, section 6.
SpecRetryable == {500, 502, 503, 504, 520, 522}

(* ------------------------------------------------------------------ *)
(* C1 .. C5: retries                                                   *)
(* ------------------------------------------------------------------ *)

\* C1: with budget 3, responses [503, 503, 200] make exactly 3 attempts and
\* end in success (the value or the empty result of the 200), responses [503, 503, 503] end in a ServerError raised
\* after the 3rd attempt with no 4th attempt; in general a run of retryable
\* statuses is retried until the budget is exhausted, and then the last
\* response is what the caller gets, as a ServerError.
C1_RetryableRun ==
    \A c \in Calls :
        /\ (budget[c] = 3 /\ StatusSeq(hist[c]) = <<503, 503, 200>>) =>
              /\ Attempts(c) = 3
              /\ pc[c] \in {"decoding", "done"}
              /\ (Finished(c) /\ Last(hist[c]).body # "notjson")
                    => outcome[c].kind \in SuccessKinds
        /\ (budget[c] = 3 /\ StatusSeq(hist[c]) = <<503, 503, 503>>) =>
              /\ Attempts(c) = 3
              /\ Finished(c)
              /\ outcome[c] = [kind |-> "ServerError", carries |-> hist[c][3]]
        /\ (/\ hist[c] # <<>>
            /\ \A i \in 1 .. Len(hist[c]) :
                  hist[c][i].cause = "none" /\ hist[c][i].status \in SpecRetryable) =>
              /\ Attempts(c) <= budget[c]
              /\ IF Len(hist[c]) < budget[c]
                 THEN Retrying(c) /\ retries[c] = budget[c] - Len(hist[c])
                 ELSE /\ Finished(c)
                      /\ Attempts(c) = budget[c]
                      /\ outcome[c] = [kind |-> "ServerError",
                                       carries |-> Last(hist[c])]

\* A call of budget 3 answered 503, 503, 200 has returned its value.
C1_Witness ==
    \E c \in Calls :
        /\ budget[c] = 3
        /\ hist[c] = <<Response(503, "json"), Response(503, "json"), Response(200, "json")>>
        /\ Finished(c)
        /\ outcome[c].kind = "Value"
        /\ Attempts(c) = 3

\* C2: one call, a refresh-capable Authorizer, the first header built from
\* a valid token, responses [401, 200]: the 401 clears the token and is
\* retried, refresh is awaited exactly once, after the 401 and before the
\* second attempt is sent, and the call ends in success.
C2_RefreshOnceAfter401 ==
    \A c \in Calls :
        (/\ clients = {c}
         /\ canRefresh
         /\ SelectSeq(trace[c], IsNotSleep) # <<>>
         /\ Head(SelectSeq(trace[c], IsNotSleep)) = "send"
         /\ budget[c] >= 2) =>
            /\ StatusSeq(hist[c]) = <<401>> =>
                  /\ Retrying(c)
                  /\ pc[c] \in {"sleep", "limiter", "refresh"} =>
                        token = "none" /\ Attempts(c) = 1
                  /\ pc[c] = "transport" =>
                        /\ token = "valid"
                        /\ SelectSeq(trace[c], IsNotSleep) =
                              <<"send", "response", "refresh", "send">>
            /\ StatusSeq(hist[c]) = <<401, 200>> =>
                  /\ SelectSeq(trace[c], IsNotSleep) =
                        <<"send", "response", "refresh", "send", "response">>
                  /\ Refreshes(c) = 1
                  /\ pc[c] \in {"decoding", "done"}
                  /\ (Finished(c) /\ Last(hist[c]).body # "notjson")
                        => outcome[c].kind \in SuccessKinds

\* The call answered 401 then 200 has returned its value after one refresh.
C2_Witness ==
    \E c \in Calls :
        /\ clients = {c}
        /\ canRefresh
        /\ budget[c] = 3
        /\ trace[c] = <<"send", "response", "sleep", "refresh", "send", "response">>
        /\ hist[c] = <<Response(401, "json"), Response(200, "json")>>
        /\ Finished(c)
        /\ outcome[c].kind = "Value"

\* C3: with a refresh-incapable Authorizer a 401 on the first attempt ends
\* the call with an AuthError carrying that response after exactly one
\* attempt, whatever the budget.
C3_NoRefreshNoRetry ==
    \A c \in Calls :
        (/\ ~canRefresh
         /\ hist[c] # <<>>
         /\ hist[c][1].cause = "none"
         /\ hist[c][1].status = 401) =>
            /\ Finished(c)
            /\ Len(hist[c]) = 1
            /\ Attempts(c) = 1
            /\ outcome[c] = [kind |-> "AuthError", carries |-> hist[c][1]]

\* A call of budget 3 on a refresh-incapable Authorizer has raised on its
\* first 401.
C3_Witness ==
    \E c \in Calls :
        /\ ~canRefresh
        /\ budget[c] = 3
        /\ StatusSeq(hist[c]) = <<401>>
        /\ Finished(c)
        /\ outcome[c].kind = "AuthError"

\* A connection error of the transport, whichever library raises it.
ConnectionErrors == {"ConnectionError", "ClientConnectorError"}

\* The trace of a call holds a backoff sleep right after its first failed
\* attempt, and one dispatch before it.
SleptAfterFirstFailure(t) ==
    \E i \in 1 .. Len(t) - 1 :
        /\ t[i] = "exception"
        /\ t[i + 1] = "sleep"
        /\ Len(SelectSeq(SubSeq(t, 1, i), IsSend)) = 1

\* What C4 says of a call of budget 3 whose first attempt failed with the
\* cause e: it is retried after a backoff sleep, and a success response to
\* the second attempt ends it in success after exactly 2 attempts.
RetriedAfterFailure(c, e) ==
    (/\ budget[c] = 3
     /\ hist[c] # <<>>
     /\ hist[c][1] = RequestException(e)) =>
        /\ Len(hist[c]) = 1 =>
              /\ Retrying(c)
              /\ Attempts(c) = IF pc[c] = "transport" THEN 2 ELSE 1
              /\ pc[c] = "sleep" => Last(trace[c]) = "exception"
              /\ pc[c] # "sleep" => SleptAfterFirstFailure(trace[c])
        /\ (Len(hist[c]) >= 2 /\ hist[c][2].status \in {200, 201}) =>
              /\ Len(hist[c]) = 2
              /\ Attempts(c) = 2
              /\ Len(SelectSeq(trace[c], IsNotSleep)) = Len(trace[c]) - 1
              /\ SleptAfterFirstFailure(trace[c])
              /\ pc[c] \in {"decoding", "done"}
              /\ (Finished(c) /\ hist[c][2].body # "notjson")
                    => outcome[c].kind \in SuccessKinds

\* C4: with budget 3, a transport connection error on the first attempt
\* and a success response on the second end the call in success after
\* exactly 2 attempts, and a backoff sleep lies between the failure and the
\* second dispatch.
C4_ConnectionErrorThenSuccess ==
    \A c \in Calls : \A e \in ConnectionErrors : RetriedAfterFailure(c, e)

\* The part of C4 that holds: a failure whose cause is an instance of
\* requests.exceptions.ConnectionError is retried as C4 says.
C4_RequestsConnectionErrorRetried ==
    \A c \in Calls : RetriedAfterFailure(c, "ConnectionError")

\* A call of budget 3 has slept once between a requests ConnectionError
\* and the attempt that brought its value.
C4_RequestsConnectionErrorWitness ==
    \E c \in Calls :
        /\ budget[c] = 3
        /\ hist[c] = <<RequestException("ConnectionError"), Response(200, "json")>>
        /\ trace[c] = <<"send", "exception", "sleep", "send", "response">>
        /\ slept[c] # <<>>
        /\ Finished(c)
        /\ outcome[c].kind = "Value"

\* C5: with a refresh-capable Authorizer every 401 received with more than
\* one attempt remaining is retried, and an AuthError for a 401 reaches the
\* caller only from the last attempt of the budget.
C5_Unauthorized401Retried ==
    \A c \in Calls :
        (/\ canRefresh
         /\ hist[c] # <<>>
         /\ Last(hist[c]).cause = "none"
         /\ Last(hist[c]).status = 401) =>
            IF Len(hist[c]) < budget[c]
            THEN Retrying(c) /\ outcome[c] = Pending
            ELSE /\ Len(hist[c]) = budget[c]
                 /\ retries[c] = 1
                 /\ Finished(c)
                 /\ outcome[c] = [kind |-> "AuthError", carries |-> Last(hist[c])]

\* A refresh-capable call has raised the AuthError of a 401 received on the
\* last attempt of its budget of 3, after two 401 that were retried.
C5_Witness ==
    \E c \in Calls :
        /\ canRefresh
        /\ budget[c] = 3
        /\ StatusSeq(hist[c]) = <<401, 401, 401>>
        /\ Finished(c)
        /\ outcome[c].kind = "AuthError"

(* ------------------------------------------------------------------ *)
(* C6 .. C8: what the caller and the transport are left with           *)
(* ------------------------------------------------------------------ *)

\* C6: once awaiting Session.request has completed, the attempt chain has
\* run to its end (at least one attempt dispatched) and the caller holds
\* the call's outcome, never a computation still to be run.
C6_RequestDeliversOutcome ==
    \A c \in Calls :
        returned[c] # "nothing" =>
            /\ returned[c] # "coroutine"
            /\ Attempts(c) >= 1
            /\ outcome[c] # Pending

\* A step of call d's coroutine from the await it is suspended at.
StepOf(d) ==
    \/ SetHeader(d)
    \/ Refreshed(d)
    \/ \E res \in server : Respond(d, res)
    \/ \E e \in faults : Fail(d, e)
    \/ Decode(d)

\* C7: while one call is in its backoff sleep, any other call in flight can
\* take its next step before the sleeping call resumes.
C7_SleepLetsOthersRun ==
    \A c \in Calls : \A d \in Calls \ {c} :
        (pc[c] = "sleep" /\ pc[d] \in {"limiter", "refresh", "transport", "decoding"})
            => ENABLED StepOf(d)

\* C8: after Session.close, or the exit of a with block, the Requestor's
\* connection resource is closed.
C8_CloseClosesTransport == closed => ~httpOpen

(* ------------------------------------------------------------------ *)
(* C9, C10: terminal resolution                                        *)
(* ------------------------------------------------------------------ *)

\* C9: a 204 yields the no-content result; a 200 or 201 yields the empty
\* result with content-length "0", the decoded value with a body that
\* decodes, and a BadJSON carrying the response with a body that does not.
C9_SuccessResolution ==
    \A c \in Calls :
        (hist[c] # <<>> /\ Last(hist[c]).cause = "none") =>
            LET res == Last(hist[c]) IN
            /\ res.status = 204 =>
                  Finished(c) /\ outcome[c].kind = "NoContent"
            /\ (res.status \in {200, 201} /\ res.body = "empty") =>
                  Finished(c) /\ outcome[c].kind = "Empty"
            /\ (res.status \in {200, 201} /\ res.body = "json") =>
                  /\ pc[c] \in {"decoding", "done"}
                  /\ outcome[c].kind = IF Finished(c) THEN "Value" ELSE "pending"
            /\ (res.status \in {200, 201} /\ res.body = "notjson") =>
                  /\ pc[c] \in {"decoding", "done"}
                  /\ outcome[c] = IF Finished(c)
                                  THEN [kind |-> "BadJSON", carries |-> res]
                                  ELSE Pending

\* A call has returned the empty result of a 201 with content-length "0".
C9_Witness ==
    \E c \in Calls :
        /\ hist[c] # <<>>
        /\ Last(hist[c]) = Response(201, "empty")
        /\ Finished(c)
        /\ outcome[c].kind = "Empty"

\* The status -> error kind table of spec.md, section 6.
SpecErrorTable ==
    (302 :> "Redirect") @@ (400 :> "BadRequest") @@ (401 :> "AuthError") @@
    (403 :> "AuthError") @@ (404 :> "NotFound") @@ (409 :> "Conflict") @@
    (413 :> "TooLarge") @@ (415 :> "SpecialError") @@
    (451 :> "UnavailableForLegalReasons") @@ (500 :> "ServerError") @@
    (502 :> "ServerError") @@ (503 :> "ServerError") @@ (504 :> "ServerError") @@
    (520 :> "ServerError") @@ (522 :> "ServerError")

SpecErrorKinds == {SpecErrorTable[s] : s \in DOMAIN SpecErrorTable}

\* C10: a terminal response whose status is in the table raises the kind
\* the table gives, carrying the response; a terminal response of any other
\* status raises no status-derived kind.
C10_StatusErrorTable ==
    \A c \in Calls :
        (Finished(c) /\ hist[c] # <<>> /\ Last(hist[c]).cause = "none") =>
            LET res == Last(hist[c]) IN
            IF res.status \in DOMAIN SpecErrorTable
            THEN outcome[c] = [kind |-> SpecErrorTable[res.status], carries |-> res]
            ELSE outcome[c].kind \notin SpecErrorKinds

\* A call has raised UnavailableForLegalReasons for a 451.
C10_Witness ==
    \E c \in Calls :
        /\ Finished(c)
        /\ hist[c] # <<>>
        /\ Last(hist[c]).status = 451
        /\ outcome[c] = [kind |-> "UnavailableForLegalReasons",
                         carries |-> Last(hist[c])]

(* ------------------------------------------------------------------ *)
(* C11: the body on the wire                                           *)
(* ------------------------------------------------------------------ *)

\* The pairs of the mapping m, with api_type=json injected into it.
PairsWithApiType(m) ==
    {p \in Items(m) : p[1] # "api_type"} \cup {<<"api_type", "json">>}

\* s lists exactly the pairs ps, each once, in ascending order of the keys.
IsKeySorted(s, ps) ==
    /\ {s[i] : i \in 1 .. Len(s)} = ps
    /\ Len(s) = Cardinality(ps)
    /\ \A i \in 1 .. Len(s) : \A j \in 1 .. Len(s) :
          i < j => Rank(s[i][1]) < Rank(s[j][1])

\* C11: for a mapping-valued body, the body sent on every attempt is the
\* sequence of the mapping's pairs plus api_type=json, sorted by key, and
\* the caller's mapping holds after the call what it held before it.
C11_BodySortedCallerUntouched ==
    \A c \in Calls :
        arg[c].data.type = "dict" =>
            /\ callerData[c] = arg[c].data
            /\ \A i \in 1 .. Len(sent[c]) :
                  /\ sent[c][i].data.type = "list"
                  /\ IsKeySorted(sent[c][i].data.seq,
                                 PairsWithApiType(arg[c].data.map))

\* A call through request() with the body {"z": "v", "a": "json"} has ended
\* after two attempts, both sent with the same sorted body of three pairs.
C11_Witness ==
    \E c \in Calls :
        /\ returned[c] = "coroutine"
        /\ arg[c].data = DictData(("z" :> "v") @@ ("a" :> "json"))
        /\ Finished(c)
        /\ Len(sent[c]) = 2
        /\ \A i \in 1 .. 2 :
              sent[c][i].data.seq =
                  <<<<"a", "json">>, <<"api_type", "json">>, <<"z", "v">>>>
        /\ callerData[c] = DictData(("z" :> "v") @@ ("a" :> "json"))

(* ------------------------------------------------------------------ *)
(* C12 .. C14: the retry decision, the counter, transport failures     *)
(* ------------------------------------------------------------------ *)

\* A chunked-encoding error, a connection error or a read timeout of the
\* transport, whichever library raises it.
SpecRetryableCauses == RETRY_EXCEPTIONS \cup AiohttpFailures

\* The retry decision of spec.md, section 4.1 f, for an attempt made with r
\* attempts remaining that ended in res, the retryable transport failures
\* being those of the given causes.
ShouldRetry(r, res, causes) ==
    r > 1 /\ (\/ res.cause = "none" /\ res.status = 401 /\ canRefresh
              \/ res.cause \in causes
              \/ res.cause = "none" /\ res.status \in SpecRetryable)

\* Every attempt of call c that has ended was followed by another attempt
\* exactly when the decision says so, and was the last one otherwise.
RetriesIff(c, causes) ==
    \A i \in 1 .. Len(hist[c]) :
        /\ (Len(counters[c]) > i) <=> ShouldRetry(counters[c][i], hist[c][i], causes)
        /\ ~ShouldRetry(counters[c][i], hist[c][i], causes) =>
              /\ i = Len(hist[c])
              /\ pc[c] \in {"decoding", "done"}

\* C12: after any attempt the call retries if and only if more than one
\* attempt remains and the response was a 401 with a refresh-capable
\* Authorizer, or the attempt ended in a retryable transport failure, or
\* the status is retryable; in every other case the attempt is the last.
C12_RetryIff == \A c \in Calls : RetriesIff(c, SpecRetryableCauses)

\* The part of C12 that holds: the same with the retryable transport
\* failures being the instances of the three classes of requests.exceptions.
C12_RetryIffRequestsCauses == \A c \in Calls : RetriesIff(c, RETRY_EXCEPTIONS)

\* The requests of the call that are with the transport: dispatched, and
\* neither answered nor failed.
IsOutcome(e) == e \in {"response", "exception"}

InFlight(c) == Attempts(c) - Len(SelectSeq(trace[c], IsOutcome))

\* The call has entered _request_with_retries and has not left it.
Running(c) == Retrying(c) \/ pc[c] = "decoding"

\* The counter of call c starts at the budget, goes down by exactly one
\* from each attempt to the next and is never negative; the call makes at
\* most budget attempts, one at a time.
CounterCountsDown(c) ==
    /\ counters[c] # <<>> => counters[c][1] = budget[c]
    /\ \A i \in 1 .. Len(counters[c]) : counters[c][i] >= 0
    /\ \A i \in 1 .. Len(counters[c]) - 1 : counters[c][i + 1] = counters[c][i] - 1
    /\ Len(counters[c]) <= budget[c]
    /\ Attempts(c) <= Len(counters[c])
    /\ InFlight(c) = IF pc[c] = "transport" THEN 1 ELSE 0

\* A run for the question whether calls end: one logical call, a server
\* that answers with a success, a 401, a status that is an error at once
\* and a retryable one, a transport that fails with a cause that is
\* retried and one that is not.
InitLive ==
    InitWith({1}, 1 .. MaxBudget,
             Responses({200, UNAUTHORIZED, 404, 503}),
             {"ConnectionError", "OtherError"}, {PlainGet})

\* The event loop resumes a coroutine whose await has completed:
\* time.sleep returns, the RateLimiter's delay and the Authorizer's refresh
\* end, and the ClientTimeout of Requestor.request ends every request with
\* a response or an exception.
Fairness == \A c \in Calls : WF_vars(SleepEnd(c) \/ StepOf(c))

SpecLive == InitLive /\ [][Next]_vars /\ Fairness

\* C13: within one logical call the remaining-retry counter decreases by
\* exactly one from each attempt to the next and is never negative, so the
\* call makes at most budget attempts, one at a time, and then terminates.
C13_CounterBoundsAttempts ==
    /\ [](\A c \in Calls : CounterCountsDown(c))
    /\ \A c \in Calls : Running(c) ~> Finished(c)

\* A call of budget 3 has ended after three attempts made with 3, 2 and 1
\* attempts remaining.
C13_Witness ==
    \E c \in Calls :
        /\ budget[c] = 3
        /\ counters[c] = <<3, 2, 1>>
        /\ Attempts(c) = 3
        /\ Len(hist[c]) = 3
        /\ Finished(c)

\* The attempt of call c that ended hist[c][i] ended the call, which raised
\* the transport error carrying its cause.
RaisedTransportError(c, i) ==
    /\ i = Len(hist[c])
    /\ Len(counters[c]) = i
    /\ Finished(c)
    /\ outcome[c] = [kind |-> "TransportError", carries |-> hist[c][i]]

\* What C14 says of every attempt of call c that ended in a transport
\* failure, the three retryable causes being the given ones.
TransportFailureHandled(c, causes) ==
    \A i \in 1 .. Len(hist[c]) :
        hist[c][i].cause # "none" =>
            IF hist[c][i].cause \notin causes THEN RaisedTransportError(c, i)
            ELSE IF counters[c][i] > 1 THEN Len(counters[c]) > i
            ELSE RaisedTransportError(c, i)

\* C14: a transport failure whose cause is not a chunked-encoding error, a
\* connection error or a read timeout is raised to the caller at once,
\* whatever the budget; one whose cause is among the three is retried when
\* more than one attempt remains, and raised, carrying the cause, on the
\* last attempt.
C14_TransportFailureHandling ==
    \A c \in Calls : TransportFailureHandled(c, SpecRetryableCauses)

\* The part of C14 that holds: the same for the three causes being the
\* instances of the three classes of requests.exceptions.
C14_RequestsCausesHandling ==
    \A c \in Calls : TransportFailureHandled(c, RETRY_EXCEPTIONS)

(* ------------------------------------------------------------------ *)
(* C15: the assertion of the success branch                            *)
(* ------------------------------------------------------------------ *)

\* What a call may end in: a result, or an error kind of the taxonomy of
\* spec.md, section 3.
SpecResultKinds ==
    {"Value", "Empty", "NoContent"} \cup SpecErrorKinds \cup
    {"BadJSON", "TransportError", "InvalidInvocation"}

\* C15: whenever terminal resolution reaches the success branch (the
\* response is not retried, its status is neither in the error table nor
\* 204), the status is 200 or 201, so every call ends in a value, an empty
\* result, a no-content marker or an error kind of the taxonomy.
C15_SuccessBranchAssertion ==
    \A c \in Calls :
        /\ (/\ pc[c] \in {"decoding", "done"}
            /\ hist[c] # <<>>
            /\ Last(hist[c]).cause = "none"
            /\ Last(hist[c]).status \notin DOMAIN SpecErrorTable
            /\ Last(hist[c]).status # 204) =>
                Last(hist[c]).status \in {200, 201}
        /\ Finished(c) => outcome[c].kind \in SpecResultKinds

(* ------------------------------------------------------------------ *)
(* C16: the descriptor on the wire                                     *)
(* ------------------------------------------------------------------ *)

\* The request s carries the fields fs of the descriptor d.
Carries(s, d, fs) == \A f \in fs : s[f] = d[f]

\* The fields of the request descriptor of spec.md, section 3.
DescriptorFields == {"method", "url", "data", "params", "files"}

\* C16: every attempt of a call, first or retried, is dispatched with the
\* descriptor canonicalization made of the caller's arguments: the same
\* method, url, body, query params and attached files.
C16_DescriptorDispatched ==
    \A c \in Calls : \A i \in 1 .. Len(sent[c]) :
        Carries(sent[c][i], Descriptor(arg[c]), DescriptorFields)

\* The part of C16 that holds: every attempt carries the method, url, body,
\* JSON object and query params of the descriptor.
C16_AllButFilesDispatched ==
    \A c \in Calls : \A i \in 1 .. Len(sent[c]) :
        Carries(sent[c][i], Descriptor(arg[c]),
                (DescriptorFields \ {"files"}) \cup {"json"})

(* ------------------------------------------------------------------ *)
(* C17, C18: the backoff sleep                                         *)
(* ------------------------------------------------------------------ *)

\* Every backoff sleep of call c follows an attempt of the call that was
\* answered or failed, and none precedes the first attempt.
SleepsOnlyAfterFailure(c) ==
    /\ pc[c] = "sleep" => hist[c] # <<>>
    /\ \A i \in 1 .. Len(trace[c]) :
          trace[c][i] = "sleep" => (i > 1 /\ IsOutcome(trace[c][i - 1]))

\* C17: a backoff sleep precedes an attempt only as the penalty for a failed
\* previous attempt of the same call: for every budget of at least 1 the
\* first attempt is dispatched without a backoff sleep before it.
C17_NoSleepBeforeFirstAttempt ==
    \A c \in Calls : budget[c] >= 1 => SleepsOnlyAfterFailure(c)

\* The part of C17 that holds: the same for the default budget of 3.
C17_NoSleepBeforeFirstOfThree ==
    \A c \in Calls : budget[c] >= DefaultRetries => SleepsOnlyAfterFailure(c)

\* The sleep of n / RandomSteps seconds lies in [lo, hi) seconds.
SleepWithin(n, lo, hi) == lo * RandomSteps <= n /\ n < hi * RandomSteps

\* C18: the backoff before an attempt depends only on the number of
\* attempts remaining: with 2 remaining it lies in [0,2) seconds, with 1
\* remaining in [2,4) seconds, so within one call a later retry never
\* sleeps less than an earlier one.
C18_BackoffByAttemptsRemaining ==
    \A c \in Calls :
        /\ sleepsAscend[c]
        /\ slept[c] # <<>> =>
              /\ retries[c] = 2 => SleepWithin(slept[c][1], 0, 2)
              /\ retries[c] = 1 => SleepWithin(slept[c][1], 2, 4)
              /\ retries[c] \in {1, 2}

\* A call of budget 3 has slept before its second attempt and again, for
\* at least 2 seconds, before its third and last.
C18_Witness ==
    \E c \in Calls :
        /\ counters[c] = <<3, 2, 1>>
        /\ Len(SelectSeq(trace[c], IsNotSleep)) = Len(trace[c]) - 2
        /\ Attempts(c) = 3
        /\ slept[c] # <<>>
        /\ SleepWithin(slept[c][1], 2, 4)
        /\ sleepsAscend[c]

(* ------------------------------------------------------------------ *)
(* C19: the token under concurrent calls                               *)
(* ------------------------------------------------------------------ *)

IsSendNone(e) == e = "send:None"

\* The call got a 401, which cleared the shared token.
Got401(c) ==
    \E i \in 1 .. Len(hist[c]) :
        hist[c][i].cause = "none" /\ hist[c][i].status = UNAUTHORIZED

\* C19: every attempt's header is built at that attempt from the token the
\* Authorizer then holds, after a refresh was awaited if the token was
\* invalid; so with a refresh-capable Authorizer no attempt is dispatched
\* with a header built from an absent token, however the concurrent calls
\* that clear the token on a 401 and refresh it interleave.
C19_NoHeaderFromAbsentToken ==
    canRefresh =>
        \A c \in Calls :
            /\ SelectSeq(trace[c], IsSendNone) = <<>>
            /\ pc[c] = "transport" =>
                  (Last(trace[c]) = "send" /\ Len(sent[c]) = Attempts(c))

\* Two calls are in flight on a refresh-capable Authorizer; each has got a
\* 401, so each has cleared the token, each has awaited a refresh after
\* that, and the one dispatched last is with the transport while the token
\* is absent again.
C19_Witness ==
    /\ canRefresh
    /\ token = "none"
    /\ \A c \in Calls : Got401(c) /\ Refreshes(c) >= 1 /\ Attempts(c) >= 2
    /\ \E c \in Calls : pc[c] = "transport" /\ Last(trace[c]) = "send"

(* ------------------------------------------------------------------ *)
(* C20: redirects                                                      *)
(* ------------------------------------------------------------------ *)

\* C20: every attempt is dispatched with redirect-following disabled; a 302
\* is never followed and never retried, it ends the call with a Redirect
\* error after that attempt; so no request of a call goes to a URL other
\* than the one resolved from the base URL and the path.
C20_RedirectsSurface ==
    \A c \in Calls :
        /\ Len(sent[c]) = Attempts(c)
        /\ \A i \in 1 .. Len(sent[c]) :
              /\ ~sent[c][i].allow_redirects
              /\ sent[c][i].url = urljoin(oauth_url, arg[c].path)
        /\ \A i \in 1 .. Len(hist[c]) :
              (hist[c][i].cause = "none" /\ hist[c][i].status = 302) =>
                  /\ i = Len(hist[c])
                  /\ Len(counters[c]) = i
                  /\ Finished(c)
                  /\ outcome[c] = [kind |-> "Redirect", carries |-> hist[c][i]]

\* A call to a path under the base URL has raised Redirect for the 302 that
\* answered its second attempt, both attempts sent to the resolved URL.
C20_Witness ==
    \E c \in Calls :
        /\ arg[c].path = RelativePath
        /\ StatusSeq(hist[c]) = <<503, 302>>
        /\ Finished(c)
        /\ outcome[c].kind = "Redirect"
        /\ Len(sent[c]) = 2
        /\ \A i \in 1 .. 2 :
              sent[c][i].url = [host |-> oauth_url, path |-> "/api/v1/me"]

====
